---------------------------- MODULE Spec2Model ----------------------------
(***************************************************************************)
(* encode2mp3: batch WAV -> MP3 converter.                                 *)
(*                                                                         *)
(* The module models                                                       *)
(*   - encodeAll2Mp3 (one POSIX thread per file, then join all),           *)
(*   - encode2mp3Worker (header validation, LAME session, the              *)
(*     read-encode-write loop, the console mutex and the diagnostics),     *)
(*   - filterFiles (extension filter of the directory listing),            *)
(*   - main (argument check, listing, exit code),                          *)
(*   - changeExtention and the sample count of one chunk on their own.     *)
(*                                                                         *)
(* Text is modelled as a sequence of one-character strings.                *)
(***************************************************************************)
EXTENDS Integers, Sequences, FiniteSets, TLC

(***************************************************************************)
(* Bounds of the model.                                                    *)
(***************************************************************************)
\* largest number of files handed to encodeAll2Mp3 (files.size())
NumFiles == 2
\* number of directory entries handed to filterFiles
MaxEntries == 2

Workers == 1..NumFiles

(***************************************************************************)
(* Program constants.                                                      *)
(***************************************************************************)
PCM_NUM_ELEMS == 8192
MP3_BUF_SIZE == 8192
\* sizeof(pcmBuffer) in bytes: int16_t pcmBuffer[2 * PCM_NUM_ELEMS]
SizeofPcmBuffer == 2 * (2 * PCM_NUM_ELEMS)

\* LAME encoder, seen from its call sites: one MPEG-1 layer III frame covers
\* 1152 sample frames; an encode call returns the bytes of the frames it
\* completed (0 when it completed none).
LameFrameSamples == 1152
LameFrameBytes == 417

Min(a, b) == IF a < b THEN a ELSE b

(***************************************************************************)
(* Text helpers.                                                           *)
(***************************************************************************)
UpperOf == [c \in {"w", "a", "v", "e", "p", "c", "m"} |->
              CASE c = "w" -> "W" [] c = "a" -> "A" [] c = "v" -> "V"
                [] c = "e" -> "E" [] c = "p" -> "P" [] c = "c" -> "C"
                [] c = "m" -> "M"]

\* ::tolower on one character (C locale)
tolower(c) ==
    IF \E l \in DOMAIN UpperOf : UpperOf[l] = c
    THEN CHOOSE l \in DOMAIN UpperOf : UpperOf[l] = c
    ELSE c

\* the extention list of the program, lower case
extentions == << <<"w", "a", "v">>, <<"w", "a", "v", "e">>, <<"p", "c", "m">> >>

\* replace file extention with "mp3": pop characters until the last one is '.'
RECURSIVE PopToDot(_)
PopToDot(fileName) ==
    IF fileName[Len(fileName)] = "."
    THEN fileName
    ELSE PopToDot(SubSeq(fileName, 1, Len(fileName) - 1))

\* the extension is appended to the whole name
appendExtention(fileName) == fileName \o <<".", "m", "p", "3">>

changeExtention(fileName) == PopToDot(fileName) \o <<"m", "p", "3">>

(***************************************************************************)
(* Input files of a batch.                                                 *)
(***************************************************************************)
\* names of the files of the batch, as filterFiles lets them through
InNames == << <<"a", ".", "w", "a", "v">>,
              <<"b", ".", "W", "A", "V">>,
              <<"c", ".", "x", ".", "p", "c", "m">>,
              <<"d", ".", "w", "a", "v", "e">> >>

\* name of the i-th file of the batch
InName(i) == InNames[((i - 1) % Len(InNames)) + 1]

Hdr(fmt, ch, rate, align, bits, tag, size) ==
    [audioFormat |-> fmt, numChannels |-> ch, sampleRate |-> rate,
     blockAlign |-> align, bitsPerSample |-> bits,
     subchunk2ID |-> tag, subchunk2Size |-> size]

\* a file: can it be opened, its 44 header bytes, the number of bytes that
\* follow the header, whether LAME accepts the configuration, and whether
\* its encode calls succeed
File(open, hdr, data, lameOk) ==
    [open |-> open, hdr |-> hdr, data |-> data, lameOk |-> lameOk, encOk |-> TRUE]

\* a file on whose samples the encode call returns an error code
FileEncFails(hdr, data) ==
    [open |-> TRUE, hdr |-> hdr, data |-> data, lameOk |-> TRUE, encOk |-> FALSE]

Stereo16(size) == Hdr(1, 2, 44100, 4, 16, "data", size)

FileSet ==
    { \* 16 bit stereo, as many bytes as declared, one short read
      File(TRUE, Stereo16(6912), 6912, TRUE),
      \* more bytes in the stream than the data chunk declares: one frame
      \* declared, one full buffer present; the second read returns 0 bytes
      File(TRUE, Stereo16(4), SizeofPcmBuffer, TRUE),
      \* 16 bit mono, truncated: 2304 frames declared, 1152 present
      File(TRUE, Hdr(1, 1, 44100, 2, 16, "data", 4608), 2304, TRUE),
      \* empty data chunk
      File(TRUE, Stereo16(0), 0, TRUE),
      \* 16 bit stereo on which lame_encode_buffer_interleaved fails
      FileEncFails(Stereo16(4608), 4608),
      \* 8 bit mono
      File(TRUE, Hdr(1, 1, 8000, 1, 8, "data", 1152), 1152, TRUE),
      \* 24 bit stereo
      File(TRUE, Hdr(1, 2, 44100, 6, 24, "data", 6912), 6912, TRUE),
      \* IEEE float
      File(TRUE, Hdr(3, 2, 44100, 8, 32, "data", 4608), 4608, TRUE),
      \* no channels
      File(TRUE, Hdr(1, 0, 44100, 4, 16, "data", 4608), 4608, TRUE),
      \* a configuration LAME rejects
      File(TRUE, Hdr(1, 2, 1, 4, 16, "data", 4608), 4608, FALSE),
      \* a file that cannot be opened
      File(FALSE, Stereo16(0), 0, TRUE) }

\* what readPcmHeader may return when nothing was read into the
\* uninitialized PcmHeader
GarbageHdrs == { Stereo16(4608), Hdr(0, 0, 0, 0, 0, "junk", 0) }

(***************************************************************************)
(* State.                                                                  *)
(***************************************************************************)
VARIABLES
    files,       \* the batch: file of each worker
    mainPc,      \* main thread inside encodeAll2Mp3
    idx,         \* loop index of encodeAll2Mp3
    aborted,     \* the process was killed
    consoleMtx,  \* 0, or the worker that holds the console mutex
    pc,          \* position of each worker
    pcmHeader,   \* header as read by each worker
    inPcm,       \* input stream of each worker
    lame,        \* LAME session (lame_t) by session
    outMp3,      \* output stream of each worker
    toWrite,     \* last result of an encode call
    fed,         \* sample frames passed to the encoder so far
    oob,         \* the worker wrote outside pcmBuffer
    cur,         \* line a worker is writing to the console right now
    lines,       \* lines each worker has written
    arg,         \* the path pthread_create handed to each worker
    mtxCalls,    \* the pthread_mutex calls each worker has made on consoleMtx
    argNum,      \* main: argc
    exit,        \* main: has the process exited, and with which code
    mainLines,   \* main: lines written by the main thread
    pathNames,   \* filterFiles: input listing
    filtered,    \* filterFiles: result
    fexts,       \* filterFiles: the extention list it was called with
    fpc,         \* filterFiles: position
    pin,         \* a pure function on its own: input
    pout,        \* a pure function on its own: result
    ppc          \* a pure function on its own: which, and whether applied

vars == << files, mainPc, idx, aborted, consoleMtx, pc, pcmHeader, inPcm,
           lame, outMp3, toWrite, fed, oob, cur, lines, arg, mtxCalls,
           argNum, exit, mainLines,
           pathNames, filtered, fexts, fpc, pin, pout, ppc >>

poolVars == << files, mainPc, idx, aborted, consoleMtx, pc, pcmHeader, inPcm,
               lame, outMp3, toWrite, fed, oob, cur, lines, arg, mtxCalls >>
filterVars == << pathNames, filtered, fexts, fpc >>
mainVars == << argNum, exit, mainLines >>
pureVars == << pin, pout, ppc >>

\* auto inFileName = static_cast<char const*>(file);
inFileName(w) == arg[w]
\* auto outFileName = changeExtention(inFileName);
outFileName(w) == changeExtention(inFileName(w))

NoLine == [kind |-> "none", stream |-> "none", name |-> <<>>, locked |-> FALSE]

\* a line on its way to the console: whether the writer holds the console
\* mutex, what it says, where it goes and the path it names
Line(locked, kind, stream, name) ==
    [kind |-> kind, stream |-> stream, name |-> name, locked |-> locked]

NoHdr == Hdr(0, 0, 0, 0, 0, "", 0)

(***************************************************************************)
(* Pure parts of the worker.                                               *)
(***************************************************************************)
\* check if PCM header contains required data
isValid(h) ==
    /\ h.audioFormat = 1
    /\ h.bitsPerSample >= 8
    /\ h.numChannels > 0
    /\ h.sampleRate > 0
    /\ h.bitsPerSample > 0

isMono(h) == h.numChannels = 1

\* the whole buffer is asked for, whatever the mode
toReadWhole(h) == SizeofPcmBuffer

\* read half of the buffer size in MONO mode
toRead(h) == SizeofPcmBuffer \div (IF isMono(h) THEN 2 ELSE 1)

\* std::istream::read of n bytes on stream s of file f: the new stream state
\* and gcount().  A stream that is not good() reads nothing and keeps its
\* flags; a read that hits the end of the file sets eofbit and failbit.
StreamRead(s, f, n) ==
    IF s.fail \/ s.eof
    THEN [stream |-> [s EXCEPT !.fail = TRUE], gcount |-> 0]
    ELSE LET got == Min(n, f.data - s.pos)
         IN  [stream |-> [s EXCEPT !.pos = s.pos + got,
                                   !.eof = got < n,
                                   !.fail = got < n],
              gcount |-> got]

samplesRead(h, bytesRead) ==
    (bytesRead \div (h.bitsPerSample \div 8)) \div h.numChannels

\* transform8To16Bit(arr16Bit, arrSz16Bit) writes arr16Bit[0 .. arrSz16Bit-1];
\* the worker passes sizeof(pcmBuffer) for a buffer of 2 * PCM_NUM_ELEMS
\* elements
transformLastIndex(arrSz16Bit) == arrSz16Bit - 1
transformOutOfBounds(h) ==
    /\ h.bitsPerSample = 8
    /\ transformLastIndex(SizeofPcmBuffer) >= 2 * PCM_NUM_ELEMS

\* 16 bit elements of pcmBuffer the encode call reads: samplesRead of them
\* by lame_encode_buffer (the right channel is the dummy array), two per
\* sample frame by lame_encode_buffer_interleaved
encoderReads(h, n) == IF isMono(h) THEN n ELSE 2 * n

\* a lame_t: st and cfg say how far it got, pending is what it buffers, the
\* rest records the calls made on it (misuse: a call on a session that is
\* not open, or an encode call after the flush)
Session(st, cfg, fails) ==
    [st |-> st, cfg |-> cfg, fails |-> fails, pending |-> 0, flushed |-> FALSE,
     flushes |-> 0, closes |-> 0, encoded |-> FALSE, misuse |-> FALSE]

\* lame_encode_buffer / lame_encode_buffer_interleaved on a session with
\* `pending` buffered sample frames: bytes returned (a negative code when
\* the call fails) and the new session
LameEncode(session, n) ==
    LET total == session.pending + n
        used  == [session EXCEPT !.encoded = TRUE,
                                 !.misuse = @ \/ session.st # "open" \/ session.flushed]
    IN  IF session.fails /\ n > 0
        THEN [toWrite |-> -1, session |-> used]
        ELSE [toWrite |-> (total \div LameFrameSamples) * LameFrameBytes,
              session |-> [used EXCEPT !.pending = total % LameFrameSamples]]

\* lame_encode_flush: the buffered samples leave as one last padded frame
LameFlush(session) ==
    [toWrite |-> LameFrameBytes,
     session |-> [session EXCEPT !.pending = 0, !.flushed = TRUE,
                                 !.flushes = @ + 1,
                                 !.misuse = @ \/ session.st # "open"]]

\* lame_close that frees nothing
LameCloseLeaks(session) == session

\* lame_close
LameClose(session) ==
    [session EXCEPT !.st = "closed", !.closes = @ + 1,
                    !.misuse = @ \/ session.st = "closed"]

NoSession == Session("none", "none", FALSE)

\* std::ofstream::write of n bytes appends them to the file; a stream with
\* badbit set writes nothing, and a negative count sets badbit (sputn
\* returns 0, which is not the count asked for)
StreamWrite(o, n) ==
    IF o.bad THEN o
    ELSE IF n < 0 THEN [o EXCEPT !.bad = TRUE]
    ELSE IF n > 0 THEN [o EXCEPT !.chunks = Append(@, n)]
    ELSE o

NoStream == [st |-> "none", chunks |-> <<>>, bad |-> FALSE]

\* one lame_t shared by all workers
SessionShared(w) == 1

\* the lame_t a worker works on: its own local pLameGF
SessionOf(w) == w

Running == aborted = "no"

\* position of a worker after the line it is writing; after "Encoding file"
\* comes the warning if (pcmHeader.bitsPerSample < 16), else the unlock
AfterWrite(kind, h) ==
    CASE kind = "unsupported" -> "unlock_bad"
      [] kind = "broken"      -> "unlock_bad"
      [] kind = "encoding"    -> IF h.bitsPerSample < 16 THEN "warn8" ELSE "unlock1"
      [] kind = "warn8"       -> "unlock1"
      [] kind = "lamefail"    -> "initfail"
      [] kind = "zero"        -> "write"
      [] kind = "finished"    -> "unlock2"
      [] OTHER                -> "done"

\* the log of a worker with one more line; the "toWrite == 0" message, which
\* a loop may repeat without end, is kept once
Logged(log, line) ==
    IF line.kind = "zero" /\ \E i \in DOMAIN log : log[i].kind = "zero"
    THEN log
    ELSE Append(log, line)

(***************************************************************************)
(* consoleMtx                                                              *)
(***************************************************************************)
\* what a worker has called on the mutex: locks that returned, unlocks,
\* and the unlocks among them made while it did not hold the mutex
NoCalls == [locks |-> 0, unlocks |-> 0, stray |-> 0]
Locked(c) == [c EXCEPT !.locks = @ + 1]
Unlocked(c, held) ==
    [c EXCEPT !.unlocks = @ + 1, !.stray = @ + (IF held THEN 0 ELSE 1)]

\* an unlock that releases nothing
MutexUnlockKeeps(m, w) == m

\* pthread_mutex_unlock(&consoleMtx) by worker w
MutexUnlock(m, w) == IF m = w THEN 0 ELSE m

(***************************************************************************)
(* encode2mp3Worker                                                        *)
(***************************************************************************)
\* the header a worker reads: the 44 bytes of a file that opens; of a file
\* that does not open nothing is read and pcmHeader keeps whatever the
\* stack held
HeadersRead(f) == IF f.open THEN {f.hdr} ELSE GarbageHdrs

\* std::ifstream inPcm(inFileName, binary); readPcmHeader(inPcm);
\* pthread_mutex_lock(&consoleMtx);
\* if (!isValid(pcmHeader)) { inPcm.close(); cout << ... } else cout << "Encoding file"
W_Validate(w) ==
    /\ Running /\ pc[w] = "open"
    /\ consoleMtx = 0
    /\ consoleMtx' = w
    /\ mtxCalls' = [mtxCalls EXCEPT ![w] = Locked(@)]
    /\ \E h \in HeadersRead(files[w]) :
          /\ pcmHeader' = [pcmHeader EXCEPT ![w] = h]
          /\ inPcm' = [inPcm EXCEPT ![w] =
                          [st |-> IF isValid(h) THEN "open" ELSE "closed",
                           pos |-> 0, eof |-> FALSE, fail |-> ~files[w].open]]
          /\ cur' = [cur EXCEPT ![w] =
                        IF ~isValid(h)
                        THEN Line(TRUE, IF h.audioFormat # 1
                                           THEN "unsupported" ELSE "broken",
                                  "cout", inFileName(w))
                        ELSE Line(TRUE, "encoding", "cout", inFileName(w))]
    /\ pc' = [pc EXCEPT ![w] = "writing"]
    /\ UNCHANGED << files, mainPc, idx, aborted, lame,
                    outMp3, toWrite, fed, oob, lines, arg, filterVars, mainVars, pureVars >>

\* the line a worker was writing is complete
W_EndWrite(w) ==
    /\ Running /\ pc[w] = "writing"
    /\ lines' = [lines EXCEPT ![w] = Logged(@, cur[w])]
    /\ cur' = [cur EXCEPT ![w] = NoLine]
    /\ pc' = [pc EXCEPT ![w] = AfterWrite(cur[w].kind, pcmHeader[w])]
    /\ UNCHANGED << files, mainPc, idx, aborted, consoleMtx, pcmHeader, inPcm,
                    lame, outMp3, toWrite, fed, oob, arg, mtxCalls, filterVars, mainVars, pureVars >>

\* return nullptr on an invalid header without pthread_mutex_unlock
W_ReturnInvalidLocked(w) ==
    /\ Running /\ pc[w] = "unlock_bad"
    /\ pc' = [pc EXCEPT ![w] = "done"]
    /\ UNCHANGED << files, mainPc, idx, aborted, consoleMtx, pcmHeader, inPcm, lame,
                    outMp3, toWrite, fed, oob, cur, lines, arg, mtxCalls, filterVars, mainVars, pureVars >>

\* pthread_mutex_unlock; return nullptr  (invalid header)
W_UnlockInvalid(w) ==
    /\ Running /\ pc[w] = "unlock_bad"
    /\ consoleMtx' = MutexUnlock(consoleMtx, w)
    /\ mtxCalls' = [mtxCalls EXCEPT ![w] = Unlocked(@, consoleMtx = w)]
    /\ pc' = [pc EXCEPT ![w] = "done"]
    /\ UNCHANGED << files, mainPc, idx, aborted, pcmHeader, inPcm, lame, outMp3,
                    toWrite, fed, oob, cur, lines, arg, filterVars, mainVars, pureVars >>

\* if (pcmHeader.bitsPerSample < 16) cout << "Warning! 8 bits per sample ..."
W_Warn8(w) ==
    /\ Running /\ pc[w] = "warn8"
    /\ cur' = [cur EXCEPT ![w] = Line(consoleMtx = w, "warn8", "cout", <<>>)]
    /\ pc' = [pc EXCEPT ![w] = "writing"]
    /\ UNCHANGED << files, mainPc, idx, aborted, consoleMtx, pcmHeader, inPcm,
                    lame, outMp3, toWrite, fed, oob, lines, arg, mtxCalls, filterVars, mainVars, pureVars >>

\* pthread_mutex_unlock after the "Encoding file" line; then lame_init, the
\* lame_set_* calls and lame_init_params under okOrThrow: on success the
\* buffers are set up and the output file is opened, otherwise okOrThrow
\* throws
W_Unlock1(w) ==
    /\ Running /\ pc[w] = "unlock1"
    /\ consoleMtx' = MutexUnlock(consoleMtx, w)
    /\ mtxCalls' = [mtxCalls EXCEPT ![w] = Unlocked(@, consoleMtx = w)]
    /\ IF files[w].lameOk
       THEN /\ lame' = [lame EXCEPT ![SessionOf(w)] =
                           Session("open", "ok", ~files[w].encOk)]
            /\ outMp3' = [outMp3 EXCEPT ![w] = [NoStream EXCEPT !.st = "open"]]
            /\ pc' = [pc EXCEPT ![w] = "read"]
       ELSE /\ lame' = [lame EXCEPT ![SessionOf(w)] =
                           Session("rejected", "rejected", FALSE)]
            /\ pc' = [pc EXCEPT ![w] = "catch"]
            /\ UNCHANGED outMp3
    /\ UNCHANGED << files, mainPc, idx, aborted, pcmHeader, inPcm,
                    toWrite, fed, oob, cur, lines, arg, filterVars, mainVars, pureVars >>

\* catch (std::runtime_error& e) { cout << e.what() << std::endl;
W_Catch(w) ==
    /\ Running /\ pc[w] = "catch"
    /\ cur' = [cur EXCEPT ![w] = Line(consoleMtx = w, "lamefail", "cout", <<>>)]
    /\ pc' = [pc EXCEPT ![w] = "writing"]
    /\ UNCHANGED << files, mainPc, idx, aborted, consoleMtx, pcmHeader, inPcm,
                    lame, outMp3, toWrite, fed, oob, lines, arg, mtxCalls, filterVars, mainVars, pureVars >>

\* the catch block without its return: the worker goes on to the loop
W_InitFailFallsThrough(w) ==
    /\ Running /\ pc[w] = "initfail"
    /\ lame' = [lame EXCEPT ![SessionOf(w)] = LameClose(@)]
    /\ inPcm' = [inPcm EXCEPT ![w].st = "closed"]
    /\ pc' = [pc EXCEPT ![w] = "read"]
    /\ UNCHANGED << files, mainPc, idx, aborted, consoleMtx, pcmHeader, outMp3,
                    toWrite, fed, oob, cur, lines, arg, mtxCalls, filterVars, mainVars, pureVars >>

\* ::lame_close(pLameGF); inPcm.close(); return nullptr;
W_InitFailReturn(w) ==
    /\ Running /\ pc[w] = "initfail"
    /\ lame' = [lame EXCEPT ![SessionOf(w)] = LameClose(@)]
    /\ inPcm' = [inPcm EXCEPT ![w].st = "closed"]
    /\ pc' = [pc EXCEPT ![w] = "done"]
    /\ UNCHANGED << files, mainPc, idx, aborted, consoleMtx, pcmHeader, outMp3,
                    toWrite, fed, oob, cur, lines, arg, mtxCalls, filterVars, mainVars, pureVars >>

\* one pass of the do-while body up to the encode call: read, count the
\* samples, widen 8 bit samples, encode; "toWrite == 0" goes to std::cerr
W_ReadEncode(w) ==
    /\ Running /\ pc[w] = "read"
    /\ LET h   == pcmHeader[w]
           r   == StreamRead(inPcm[w], files[w], toRead(h))
           n   == samplesRead(h, r.gcount)
           enc == LameEncode(lame[SessionOf(w)], n)
       IN  /\ inPcm' = [inPcm EXCEPT ![w] = r.stream]
           /\ oob' = [oob EXCEPT ![w] = @ \/ transformOutOfBounds(h)]
           /\ lame' = [lame EXCEPT ![SessionOf(w)] = enc.session]
           /\ fed' = [fed EXCEPT ![w] = @ + n]
           /\ toWrite' = [toWrite EXCEPT ![w] = enc.toWrite]
           /\ IF enc.toWrite = 0
              THEN /\ cur' = [cur EXCEPT ![w] = Line(consoleMtx = w, "zero", "cerr", inFileName(w))]
                   /\ pc' = [pc EXCEPT ![w] = "writing"]
              ELSE /\ pc' = [pc EXCEPT ![w] = "write"]
                   /\ UNCHANGED cur
    /\ UNCHANGED << files, mainPc, idx, aborted, consoleMtx, pcmHeader, outMp3,
                    lines, arg, mtxCalls, filterVars, mainVars, pureVars >>

\* transform8To16Bit writes outside pcmBuffer and hits a guard page or the
\* stack protector: the process is killed.  (W_ReadEncode is the outcome in
\* which the stray writes hit nothing that is used afterwards.)
W_Crash(w) ==
    /\ Running /\ pc[w] = "read"
    /\ transformOutOfBounds(pcmHeader[w])
    /\ aborted' = "crash"
    /\ UNCHANGED << files, mainPc, idx, consoleMtx, pc, pcmHeader, inPcm, lame,
                    outMp3, toWrite, fed, oob, cur, lines, arg, mtxCalls, filterVars, mainVars, pureVars >>

\* outMp3.write(mp3Buffer, toWrite); } while (!inPcm.eof());
W_WriteMp3(w) ==
    /\ Running /\ pc[w] = "write"
    /\ outMp3' = [outMp3 EXCEPT ![w] = StreamWrite(@, toWrite[w])]
    /\ pc' = [pc EXCEPT ![w] = IF inPcm[w].eof THEN "flush" ELSE "read"]
    /\ UNCHANGED << files, mainPc, idx, aborted, consoleMtx, pcmHeader, inPcm,
                    lame, toWrite, fed, oob, cur, lines, arg, mtxCalls, filterVars, mainVars, pureVars >>

\* lame_encode_flush, write, lame_close, inPcm.close(), outMp3.close()
W_Flush(w) ==
    /\ Running /\ pc[w] = "flush"
    /\ LET fl == LameFlush(lame[SessionOf(w)])
       IN  /\ toWrite' = [toWrite EXCEPT ![w] = fl.toWrite]
           /\ outMp3' = [outMp3 EXCEPT ![w] =
                            [StreamWrite(@, fl.toWrite) EXCEPT !.st = "closed"]]
           /\ lame' = [lame EXCEPT ![SessionOf(w)] = LameClose(fl.session)]
    /\ inPcm' = [inPcm EXCEPT ![w].st = "closed"]
    /\ pc' = [pc EXCEPT ![w] = "lock2"]
    /\ UNCHANGED << files, mainPc, idx, aborted, consoleMtx, pcmHeader, fed, oob,
                    cur, lines, arg, mtxCalls, filterVars, mainVars, pureVars >>

\* pthread_mutex_lock(&consoleMtx);
\* cout << "Finished encoding file " << outFileName << std::endl;
W_Finished(w) ==
    /\ Running /\ pc[w] = "lock2"
    /\ consoleMtx = 0
    /\ consoleMtx' = w
    /\ mtxCalls' = [mtxCalls EXCEPT ![w] = Locked(@)]
    /\ cur' = [cur EXCEPT ![w] = Line(TRUE, "finished", "cout", outFileName(w))]
    /\ pc' = [pc EXCEPT ![w] = "writing"]
    /\ UNCHANGED << files, mainPc, idx, aborted, pcmHeader, inPcm,
                    lame, outMp3, toWrite, fed, oob, lines, arg, filterVars, mainVars, pureVars >>

\* pthread_mutex_unlock; return nullptr  (end of the worker)
W_Unlock2(w) ==
    /\ Running /\ pc[w] = "unlock2"
    /\ consoleMtx' = MutexUnlock(consoleMtx, w)
    /\ mtxCalls' = [mtxCalls EXCEPT ![w] = Unlocked(@, consoleMtx = w)]
    /\ pc' = [pc EXCEPT ![w] = "done"]
    /\ UNCHANGED << files, mainPc, idx, aborted, pcmHeader, inPcm, lame, outMp3,
                    toWrite, fed, oob, cur, lines, arg, filterVars, mainVars, pureVars >>

Worker(w) ==
    \/ W_Validate(w) \/ W_EndWrite(w)
    \/ W_UnlockInvalid(w) \/ W_Warn8(w) \/ W_Unlock1(w) \/ W_Catch(w)
    \/ W_InitFailReturn(w) \/ W_ReadEncode(w) \/ W_Crash(w) \/ W_WriteMp3(w)
    \/ W_Flush(w) \/ W_Finished(w) \/ W_Unlock2(w)

(***************************************************************************)
(* encodeAll2Mp3                                                           *)
(***************************************************************************)
\* pthread_create(&workers[idx].thread, nullptr, &encode2mp3Worker, file) == 0
\* every thread is handed the path of the first file
TaskFirst(i) == 1

\* the argument is files[idx].name.c_str(), for the worker workers[idx]
TaskOf(i) == i

M_Create ==
    /\ Running /\ mainPc = "create" /\ idx < Len(filtered)
    /\ pc' = [pc EXCEPT ![idx + 1] = "open"]
    /\ arg' = [arg EXCEPT ![idx + 1] = filtered[TaskOf(idx + 1)].name]
    /\ IF idx + 1 = Len(filtered)
       THEN mainPc' = "join" /\ idx' = 0
       ELSE mainPc' = "create" /\ idx' = idx + 1
    /\ UNCHANGED << files, aborted, consoleMtx, pcmHeader, inPcm, lame, outMp3,
                    toWrite, fed, oob, cur, lines, mtxCalls, filterVars, mainVars,
                    pureVars >>

\* pthread_create failed: throw std::runtime_error, which nothing catches
M_CreateFails ==
    /\ Running /\ mainPc = "create" /\ idx < Len(filtered)
    /\ mainPc' = "threw"
    /\ aborted' = "terminate"
    /\ UNCHANGED << files, idx, consoleMtx, pc, pcmHeader, inPcm, lame, outMp3,
                    toWrite, fed, oob, cur, lines, arg, mtxCalls, filterVars, mainVars, pureVars >>

\* a join that does not wait
JoinNoWait(w) == TRUE

\* pthread_join returns once the thread has terminated
JoinReady(w) == pc[w] = "done"

\* ::pthread_join(worker.thread, &pstatus) for each worker, then return
M_Join ==
    /\ Running /\ mainPc = "join" /\ idx < Len(filtered)
    /\ JoinReady(idx + 1)
    /\ IF idx + 1 = Len(filtered)
       THEN mainPc' = "returned" /\ idx' = idx + 1
       ELSE mainPc' = "join" /\ idx' = idx + 1
    /\ UNCHANGED << files, aborted, consoleMtx, pc, pcmHeader, inPcm, lame,
                    outMp3, toWrite, fed, oob, cur, lines, arg, mtxCalls, filterVars, mainVars, pureVars >>

(***************************************************************************)
(* filterFiles                                                             *)
(***************************************************************************)
Entry(type, name) == [type |-> type, name |-> name]

\* *(name.rbegin() + k)
RChar(name, k) == name[Len(name) - k]

\* no check of the '.'
HasDotUnchecked(name, extSize) == TRUE

\* check extention has a '.'
HasDot(name, extSize) == RChar(name, extSize) = "."

\* std::transform(name.rbegin(), name.rbegin() + extSize, back_inserter, tolower)
extentionAllLowerBackwards(name, extSize) ==
    [j \in 1..extSize |-> tolower(RChar(name, j - 1))]

\* std::equal(s.rbegin(), s.rbegin() + extSize, extention.begin())
isEqualExtention(s, extSize, extention) ==
    \A j \in 0..(extSize - 1) : RChar(s, j) = extention[j + 1]

\* the loop over the extentions, from the i-th on: is the entry pushed?
RECURSIVE MatchesFrom(_, _, _)
MatchesFrom(name, exts, i) ==
    IF i > Len(exts)
    THEN FALSE
    ELSE LET extention == exts[i]
             extSize   == Len(extention)
         IN  IF Len(name) < extSize + 1
             THEN MatchesFrom(name, exts, i + 1)
             ELSE IF ~HasDot(name, extSize)
             THEN MatchesFrom(name, exts, i + 1)
             ELSE IF isEqualExtention(extentionAllLowerBackwards(name, extSize),
                                      extSize, extention)
             THEN TRUE
             ELSE MatchesFrom(name, exts, i + 1)

\* the loop over the entries, from the i-th on, with `out` built so far
RECURSIVE FilterFrom(_, _, _, _)
FilterFrom(names, exts, i, out) ==
    IF i > Len(names)
    THEN out
    ELSE IF names[i].type # "File"
    THEN FilterFrom(names, exts, i + 1, out)
    ELSE IF MatchesFrom(names[i].name, exts, 1)
    THEN FilterFrom(names, exts, i + 1, Append(out, names[i]))
    ELSE FilterFrom(names, exts, i + 1, out)

filterFiles(names, exts) == FilterFrom(names, exts, 1, <<>>)

\* the extention list of the test, test_file_filter.cpp
testExtentions == << <<"w", "a", "v">>, <<"p", "c", "m">>, <<"w", "a", "v", "e">> >>

\* names a directory listing can hold: a stem, perhaps a separator, a tail
NameStems == { <<>>, <<"a">>, <<"b", ".", "w", "a", "v">> }
NameSeps == { <<>>, <<".">> }
NameTails == { <<"w", "a", "v">>, <<"W", "a", "V">>, <<"W", "A", "V", "E">>,
               <<"p", "C", "m">>, <<"m", "p", "3">>, <<"w", "a">>,
               <<"a", "v", "e">>, <<>> }
NameSet == { s \o d \o t : s \in NameStems, d \in NameSeps, t \in NameTails }

EntrySet ==
    { Entry("File", n) : n \in NameSet }
        \cup { Entry("Dir", n) : n \in { <<"a", ".", "w", "a", "v">>, <<".">>, <<"a">> } }

\* {a.WAV, b.wav, c.mp3, d.pcm, e}
ExampleListing ==
    << Entry("File", <<"a", ".", "W", "A", "V">>),
       Entry("File", <<"b", ".", "w", "a", "v">>),
       Entry("File", <<"c", ".", "m", "p", "3">>),
       Entry("File", <<"d", ".", "p", "c", "m">>),
       Entry("File", <<"e">>) >>

Listings ==
    UNION { [1..n -> EntrySet] : n \in 0..MaxEntries } \cup { ExampleListing }

\* filterFiles(pathNames, extentions), as main and the test call it
F_Filter ==
    /\ fpc = "call"
    /\ \E exts \in { extentions, testExtentions } :
          /\ fexts' = exts
          /\ filtered' = filterFiles(pathNames, exts)
    /\ fpc' = "done"
    /\ UNCHANGED << pathNames, poolVars, mainVars, pureVars >>

(***************************************************************************)
(* main                                                                    *)
(***************************************************************************)
MainLine(kind, exts, n) == [kind |-> kind, exts |-> exts, n |-> n]

NotExited == [done |-> FALSE, code |-> 0]
Exited(code) == [done |-> TRUE, code |-> code]

\* files.empty() is not looked at
EmptyUnchecked(fs) == FALSE

\* files.empty()
NoFilesFound(fs) == Len(fs) = 0

\* if (argNum != 2): usage with the extentions, return -1;
\* otherwise cout << "argument: " << args[1]
M_Main ==
    /\ mainPc = "main"
    /\ IF argNum # 2
       THEN /\ mainLines' = Append(mainLines, MainLine("usage", extentions, 0))
            /\ exit' = Exited(-1)
            /\ mainPc' = "exited"
       ELSE /\ mainLines' = Append(mainLines, MainLine("argument", <<>>, 0))
            /\ exit' = exit
            /\ mainPc' = "list"
    /\ UNCHANGED << argNum, files, idx, aborted, consoleMtx, pc, pcmHeader, inPcm,
                    lame, outMp3, toWrite, fed, oob, cur, lines, arg, mtxCalls,
                    filterVars, pureVars >>

\* files = filterFiles(getCanonicalDirContents(args[1]), extentions);
\* if (files.empty()): message, return -1; otherwise "Found N files to encode"
M_List ==
    /\ mainPc = "list"
    /\ LET fs == filterFiles(pathNames, extentions)
       IN  /\ filtered' = fs
           /\ IF NoFilesFound(fs)
              THEN /\ mainLines' = Append(mainLines, MainLine("nofiles", <<>>, 0))
                   /\ exit' = Exited(-1)
                   /\ mainPc' = "exited"
              ELSE /\ mainLines' = Append(mainLines, MainLine("found", <<>>, Len(fs)))
                   /\ exit' = exit
                   /\ mainPc' = "create"
    /\ UNCHANGED << argNum, pathNames, fexts, fpc, files, idx, aborted, consoleMtx,
                    pc, pcmHeader, inPcm, lame, outMp3, toWrite, fed, oob, cur,
                    lines, arg, mtxCalls, pureVars >>

\* encodeAll2Mp3(files) has returned: return 0
M_Exit ==
    /\ mainPc = "returned"
    /\ exit' = Exited(0)
    /\ mainPc' = "exited"
    /\ UNCHANGED << argNum, mainLines, files, idx, aborted, consoleMtx,
                    pc, pcmHeader, inPcm, lame, outMp3, toWrite, fed, oob, cur,
                    lines, arg, mtxCalls, filterVars, pureVars >>

\* what getCanonicalDirContents returns: nothing (a directory that cannot be
\* opened), a directory without a supported file, and directories with
\* 1..NumFiles supported files among other entries
MatchListing(k) ==
    << Entry("Dir", <<".">>) >>
        \o [i \in 1..k |-> Entry("File", InName(i))]
        \o << Entry("File", <<"c", ".", "m", "p", "3">>) >>

MainListings ==
    { <<>>, << Entry("Dir", <<".">>), Entry("File", <<"e">>) >> }
        \cup { MatchListing(k) : k \in 1..NumFiles }

\* the slot of a worker that is not part of the batch
NoFile == File(FALSE, NoHdr, 0, FALSE)

(***************************************************************************)
(* changeExtention and the sample count of one chunk, on their own         *)
(***************************************************************************)
MaxPathLen == 4

\* paths with a '.', as every file name that passed filterFiles has one
PathSet ==
    { p \in UNION { [1..n -> {"a", ".", "W"}] : n \in 1..MaxPathLen } :
          \E i \in DOMAIN p : p[i] = "." }
        \cup { <<"t", "r", "a", "c", "k", ".", "0", "7", ".", "W", "A", "V">> }

\* changeExtention(inFileName)
P_ChangeExtention ==
    /\ ppc = "path"
    /\ pout' = changeExtention(pin)
    /\ ppc' = "named"
    /\ UNCHANGED << pin, poolVars, filterVars, mainVars >>

\* changeExtention of a path that changeExtention returned
P_ChangeAgain ==
    /\ ppc = "named"
    /\ pin' = pout
    /\ pout' = changeExtention(pout)
    /\ ppc' = "renamed"
    /\ UNCHANGED << poolVars, filterVars, mainVars >>

\* headers of every kind, and how many bytes the stream still holds
HeaderSpace ==
    { Hdr(fmt, ch, rate, (ch * bits) \div 8, bits, "data", 0) :
          fmt \in {1, 3}, ch \in 0..3, rate \in {0, 44100},
          bits \in {0, 4, 8, 12, 16, 24, 32} }

BytesLeft == { 0, 1, 2, 3, 4, 4608, 16383, 16384, 32768, 40000 }

\* isValid(pcmHeader), then one pass of the loop body up to the encode call:
\* read toRead bytes, count the samples, widen 8 bit samples
P_Chunk ==
    /\ ppc = "chunk"
    /\ LET h == pin.hdr
           r == StreamRead([st |-> "open", pos |-> 0, eof |-> FALSE, fail |-> FALSE],
                           File(TRUE, h, pin.left, TRUE), toRead(h))
       IN  IF isValid(h)
           THEN pout' = [accepted |-> TRUE,
                         bytesRead |-> r.gcount,
                         samples |-> samplesRead(h, r.gcount),
                         full |-> samplesRead(h, toRead(h)),
                         widenOob |-> transformOutOfBounds(h),
                         consumed |-> encoderReads(h, samplesRead(h, r.gcount))]
           ELSE pout' = [accepted |-> FALSE, bytesRead |-> 0, samples |-> 0,
                         full |-> 0, widenOob |-> FALSE, consumed |-> 0]
    /\ ppc' = "counted"
    /\ UNCHANGED << pin, poolVars, filterVars, mainVars >>

(***************************************************************************)
(* Specifications.                                                         *)
(***************************************************************************)
PoolInit ==
    /\ idx = 0
    /\ aborted = "no"
    /\ consoleMtx = 0
    /\ pc = [w \in Workers |-> "idle"]
    /\ pcmHeader = [w \in Workers |-> NoHdr]
    /\ inPcm = [w \in Workers |->
                  [st |-> "none", pos |-> 0, eof |-> FALSE, fail |-> FALSE]]
    /\ lame = [w \in Workers |-> NoSession]
    /\ outMp3 = [w \in Workers |-> NoStream]
    /\ arg = [w \in Workers |-> <<>>]
    /\ mtxCalls = [w \in Workers |-> NoCalls]
    /\ toWrite = [w \in Workers |-> 0]
    /\ fed = [w \in Workers |-> 0]
    /\ oob = [w \in Workers |-> FALSE]
    /\ cur = [w \in Workers |-> NoLine]
    /\ lines = [w \in Workers |-> <<>>]

PureOff ==
    /\ pin = <<>>
    /\ pout = <<>>
    /\ ppc = "off"

\* the program starts with some arguments on some directory; the files of
\* the directory that main will hand to workers have some contents
StartOn(fileSet) ==
    /\ argNum \in 1..3
    /\ pathNames \in MainListings
    /\ files \in [Workers -> fileSet \cup {NoFile}]
    /\ \A w \in Workers :
          files[w] = NoFile
              <=> ~(argNum = 2 /\ w <= Len(filterFiles(pathNames, extentions)))
    /\ mainPc = "main"
    /\ exit = NotExited
    /\ mainLines = <<>>
    /\ PoolInit
    /\ filtered = <<>>
    /\ fexts = <<>>
    /\ fpc = "off"
    /\ PureOff

Init == StartOn(FileSet)

\* one file for each way through the worker: rejected header, 8 bit warning
\* and the whole loop, configuration rejected by LAME, input that does not
\* open
PathFiles ==
    { f \in FileSet :
          \/ f.hdr.audioFormat # 1
          \/ f.hdr.bitsPerSample = 8
          \/ ~f.lameOk
          \/ ~f.open }

PathInit == StartOn(PathFiles)

\* a directory listing enters filterFiles
FilterInit ==
    /\ files = [w \in Workers |-> NoFile]
    /\ mainPc = "off"
    /\ argNum = 2
    /\ exit = NotExited
    /\ mainLines = <<>>
    /\ PoolInit
    /\ PureOff
    /\ pathNames \in Listings
    /\ filtered = <<>>
    /\ fexts = <<>>
    /\ fpc = "call"

\* a path enters changeExtention, or a header and a stream enter the loop
PureInit ==
    /\ files = [w \in Workers |-> NoFile]
    /\ mainPc = "off"
    /\ argNum = 2
    /\ exit = NotExited
    /\ mainLines = <<>>
    /\ PoolInit
    /\ pathNames = <<>>
    /\ filtered = <<>>
    /\ fexts = <<>>
    /\ fpc = "off"
    /\ pout = <<>>
    /\ \/ ppc = "path" /\ pin \in PathSet
       \/ ppc = "chunk" /\ pin \in [hdr : HeaderSpace, left : BytesLeft]

Next ==
    \/ M_Main
    \/ M_List
    \/ M_Exit
    \/ M_Create
    \/ M_CreateFails
    \/ M_Join
    \/ \E w \in Workers : Worker(w)

Spec == Init /\ [][Next]_vars

FilterSpec == FilterInit /\ [][F_Filter]_vars

PureSpec == PureInit /\ [][P_ChangeExtention \/ P_ChangeAgain \/ P_Chunk]_vars

\* every thread that can take a step eventually takes one
FairPathSpec ==
    /\ PathInit /\ [][Next]_vars
    /\ WF_vars(M_Main) /\ WF_vars(M_List) /\ WF_vars(M_Exit)
    /\ WF_vars(M_Create) /\ WF_vars(M_Join)
    /\ \A w \in Workers : WF_vars(Worker(w))

FairSpec ==
    /\ Spec
    /\ WF_vars(M_Main) /\ WF_vars(M_List) /\ WF_vars(M_Exit)
    /\ WF_vars(M_Create) /\ WF_vars(M_Join)
    /\ \A w \in Workers : WF_vars(Worker(w))

(***************************************************************************)
(* Vocabulary of the properties.                                           *)
(***************************************************************************)
\* the lines of a worker, the one it is writing included
Emitted(w) == IF cur[w].kind = "none" THEN lines[w] ELSE Append(lines[w], cur[w])

HasLine(w, kinds) == \E i \in DOMAIN Emitted(w) : Emitted(w)[i].kind \in kinds
CountLines(w, kinds) ==
    Cardinality({i \in DOMAIN Emitted(w) : Emitted(w)[i].kind \in kinds})

FailureKinds == {"unsupported", "broken", "lamefail"}
FinishedLine(w) == HasLine(w, {"finished"})
FailureLine(w) == HasLine(w, FailureKinds)
RejectedHeader(w) == HasLine(w, {"unsupported", "broken"})
AcceptedHeader(w) == HasLine(w, {"encoding"})

\* the workers of the batch: one per file that main found
Batch == 1..Len(filtered)
Spawned(w) == pc[w] # "idle"

\* header validation as the specification words it
SpecAccepts(h) ==
    /\ h.audioFormat = 1
    /\ h.numChannels > 0
    /\ h.sampleRate > 0
    /\ h.bitsPerSample \in {8, 16}
    /\ h.subchunk2ID = "data"

declaredSampleCount(h) == h.subchunk2Size \div h.blockAlign

\* sample frames the stream of file f holds after the header
FramesInStream(f) == f.data \div f.hdr.blockAlign

LoopLeft(w) == pc[w] \in {"flush", "lock2", "unlock2", "done"} \/ FinishedLine(w)

IsPrefix(a, b) == Len(a) <= Len(b) /\ SubSeq(b, 1, Len(a)) = a

\* a file the worker can open, whose header it accepts and LAME accepts
ValidInput(f) == f.open /\ isValid(f.hdr) /\ f.lameOk

\* the chunks one file gives when it is processed alone, start to end
RECURSIVE AloneLoop(_, _, _, _)
AloneLoop(f, stream, session, out) ==
    LET r    == StreamRead(stream, f, toRead(f.hdr))
        enc  == LameEncode(session, samplesRead(f.hdr, r.gcount))
        next == StreamWrite(out, enc.toWrite)
    IN  IF r.stream.eof
        THEN StreamWrite(next, LameFlush(enc.session).toWrite).chunks
        ELSE AloneLoop(f, r.stream, enc.session, next)

AloneChunks ==
    [f \in {g \in FileSet : ValidInput(g)} |->
        AloneLoop(f, [st |-> "open", pos |-> 0, eof |-> FALSE, fail |-> FALSE],
                  Session("open", "ok", ~f.encOk), NoStream)]

LowerSeq(s) == [k \in 1..Len(s) |-> tolower(s[k])]

\* a file whose name ends with '.' and one of the extentions, whatever the case
Recognized(e, exts) ==
    /\ e.type = "File"
    /\ \E i \in DOMAIN exts :
          /\ Len(e.name) >= Len(exts[i]) + 1
          /\ LowerSeq(SubSeq(e.name, Len(e.name) - Len(exts[i]), Len(e.name)))
                = <<".">> \o exts[i]

RecognizedNow(e) == Recognized(e, fexts)

(***************************************************************************)
(* C1. encodeAll2Mp3 returns only after every worker thread it spawned     *)
(* has terminated: in no state where it has returned is a worker still     *)
(* running.                                                                *)
(***************************************************************************)
C1_ReturnsAfterAllTerminated ==
    mainPc = "returned" =>
        \A w \in Workers : IF w \in Batch THEN pc[w] = "done" ELSE pc[w] = "idle"

\* the pool has returned from a batch in which one worker finished its file
\* and another stopped on a failure
C1_Witness ==
    /\ mainPc = "returned"
    /\ \E w, v \in Workers : FinishedLine(w) /\ FailureLine(v)

(***************************************************************************)
(* C2. Every write of a worker to the shared output happens while that     *)
(* worker holds the console mutex, so two workers never write at the same  *)
(* time.                                                                   *)
(***************************************************************************)
C2_WritesHoldMutex ==
    /\ \A w \in Workers : pc[w] = "writing" => consoleMtx = w
    /\ Cardinality({w \in Workers : pc[w] = "writing"}) <= 1

(***************************************************************************)
(* C3. For every accepted header the sample frames fed to the encoder      *)
(* never exceed declaredSampleCount = subchunk2Size / blockAlign, and      *)
(* once the loop has ended they equal it whenever the stream holds at      *)
(* least that many frames.                                                 *)
(***************************************************************************)
C3_FedWithinDeclared ==
    \A w \in Workers :
        (files[w].open /\ AcceptedHeader(w) /\ SpecAccepts(pcmHeader[w])) =>
            /\ fed[w] <= declaredSampleCount(pcmHeader[w])
            /\ (LoopLeft(w) /\ FramesInStream(files[w]) >= declaredSampleCount(pcmHeader[w]))
                  => fed[w] = declaredSampleCount(pcmHeader[w])

(***************************************************************************)
(* C4. The read-encode-write loop of a worker terminates for every input:  *)
(* a worker that is in the loop eventually leaves it for the flush (unless *)
(* the whole process is killed).                                           *)
(***************************************************************************)
C4_LoopTerminates ==
    \A w \in Workers :
        (pc[w] = "read" /\ Running) ~> (pc[w] = "flush" \/ ~Running)

(***************************************************************************)
(* C5. Concurrency isolation: whatever the interleaving, the chunks a      *)
(* worker has written to its own output are a prefix of what its file      *)
(* gives when processed alone, and all of it once the output is closed.    *)
(***************************************************************************)
C5_OutputAsAlone ==
    \A w \in Workers :
        ValidInput(files[w]) =>
            /\ IsPrefix(outMp3[w].chunks, AloneChunks[files[w]])
            /\ outMp3[w].st = "closed" => outMp3[w].chunks = AloneChunks[files[w]]

\* every worker of the batch had a valid file, all are done, and two of them
\* wrote more than the flush chunk
C5_Witness ==
    /\ \A w \in Workers : ValidInput(files[w]) /\ pc[w] = "done"
    /\ \E w, v \in Workers :
          w # v /\ Len(outMp3[w].chunks) >= 2 /\ Len(outMp3[v].chunks) >= 2

(***************************************************************************)
(* C6. filterFiles returns exactly the entries of kind File whose name     *)
(* ends with '.' and a recognized extention, compared without regard to    *)
(* ASCII case, each once and in the order of the input.                    *)
(***************************************************************************)
C6_FilterExact ==
    fpc = "done" => filtered = SelectSeq(pathNames, RecognizedNow)

\* {a.WAV, b.wav, c.mp3, d.pcm, e} under the extentions of the test gives
\* {a.WAV, b.wav, d.pcm}
C6_Witness ==
    /\ fpc = "done"
    /\ fexts = testExtentions
    /\ pathNames = ExampleListing
    /\ filtered = << ExampleListing[1], ExampleListing[2], ExampleListing[4] >>

(***************************************************************************)
(* C7. Header validation accepts a header exactly when audioFormat = 1,    *)
(* numChannels > 0, sampleRate > 0, bitsPerSample is 16 or 8 and the       *)
(* subchunk tag is "data"; a header of another audio format is reported    *)
(* as unsupported.                                                         *)
(***************************************************************************)
C7_AcceptsExactly ==
    \A w \in Workers :
        /\ AcceptedHeader(w) => SpecAccepts(pcmHeader[w])
        /\ RejectedHeader(w) => ~SpecAccepts(pcmHeader[w])
        /\ (RejectedHeader(w) /\ pcmHeader[w].audioFormat # 1)
              => HasLine(w, {"unsupported"})

(***************************************************************************)
(* C8. A validation failure stops only that file's task: the worker opens  *)
(* no encoder session, creates no output file, emits no "Finished" line    *)
(* and keeps nothing the others need (it ends without the console mutex).  *)
(***************************************************************************)
C8_ValidationFailureIsLocal ==
    \A w \in Workers :
        RejectedHeader(w) =>
            /\ lame[SessionOf(w)].st = "none"
            /\ outMp3[w].st = "none"
            /\ ~FinishedLine(w)
            /\ pc[w] \in {"writing", "unlock_bad", "done"}
            /\ pc[w] = "done" => consoleMtx # w

\* a batch has returned in which one header was rejected and another file
\* was encoded to its end
C8_Witness ==
    /\ mainPc = "returned"
    /\ \E w, v \in Workers : RejectedHeader(w) /\ FinishedLine(v)

(***************************************************************************)
(* C9. Every per-file failure yields exactly one diagnostic line, and      *)
(* that line names the file.                                               *)
(***************************************************************************)
C9_OneNamedDiagnostic ==
    \A w \in Workers :
        (pc[w] = "done" /\ ~FinishedLine(w)) =>
            /\ CountLines(w, FailureKinds) = 1
            /\ \A i \in DOMAIN lines[w] :
                  lines[w][i].kind \in FailureKinds => lines[w][i].name = inFileName(w)

(***************************************************************************)
(* C10. A worker emits "Finished" at most once, only after the encoder was *)
(* flushed and closed and the output closed, naming the derived output     *)
(* path; a worker that stopped on a failure never emits it, and a worker   *)
(* that ended without it has emitted a failure diagnostic before.          *)
(***************************************************************************)
C10_FinishedLine ==
    \A w \in Workers :
        /\ CountLines(w, {"finished"}) <= 1
        /\ FinishedLine(w) =>
              /\ lame[SessionOf(w)].flushed
              /\ lame[SessionOf(w)].st = "closed"
              /\ outMp3[w].st = "closed"
              /\ \A i \in DOMAIN Emitted(w) :
                    Emitted(w)[i].kind = "finished" =>
                        Emitted(w)[i].name = changeExtention(inFileName(w))
        /\ FailureLine(w) => ~FinishedLine(w)
        /\ (pc[w] = "done" /\ ~FinishedLine(w)) => HasLine(w, FailureKinds)

\* all workers are done, one with its "Finished" line and one without
C10_Witness ==
    /\ \A w \in Workers : pc[w] = "done"
    /\ \E w, v \in Workers :
          /\ FinishedLine(w) /\ ~FailureLine(w)
          /\ ~FinishedLine(v) /\ FailureLine(v)

(***************************************************************************)
(* C11. On every exit path of a worker an encoder session that was opened  *)
(* has been flushed exactly once and then closed exactly once, with no     *)
(* encode call after the flush and no call after the close; a session      *)
(* whose configuration was rejected is closed without any encode or flush; *)
(* and no stream of a worker that has returned is still open.              *)
(***************************************************************************)
C11_SessionLifecycle ==
    \A w \in Workers :
        LET s == lame[SessionOf(w)]
        IN  /\ ~s.misuse
            /\ s.flushes <= 1 /\ s.closes <= 1
            /\ (s.cfg = "ok" /\ s.closes = 1) => s.flushes = 1
            /\ s.cfg = "rejected" => ~s.encoded /\ s.flushes = 0
            /\ pc[w] = "done" =>
                  /\ s.cfg = "ok" => s.flushes = 1 /\ s.closes = 1
                  /\ s.cfg = "rejected" => s.closes = 1
                  /\ inPcm[w].st # "open"
                  /\ outMp3[w].st # "open"

C11_Witness ==
    \E w, v \in Workers :
        /\ pc[w] = "done" /\ lame[SessionOf(w)].cfg = "ok" /\ lame[SessionOf(w)].encoded
        /\ pc[v] = "done" /\ lame[SessionOf(v)].cfg = "rejected"

(***************************************************************************)
(* C12. The exit code depends only on the arguments and the listing: with  *)
(* an argument count other than 2 the usage with the extentions is printed *)
(* and the process exits with -1 without a worker; with no recognized file *)
(* in the listing a message is printed and the process exits with -1       *)
(* without a worker; otherwise the process exits only with 0, only after   *)
(* every worker of the batch has terminated, whatever the workers reported.*)
(***************************************************************************)
NoWorkerSpawned == \A w \in Workers : ~Spawned(w)
MainSaid(kind) == \E i \in DOMAIN mainLines : mainLines[i].kind = kind
AnyRecognized == \E i \in DOMAIN pathNames : Recognized(pathNames[i], extentions)

C12_ExitCode ==
    /\ (argNum # 2 /\ mainPc # "main") =>
          /\ exit = Exited(-1)
          /\ NoWorkerSpawned
          /\ \E i \in DOMAIN mainLines : mainLines[i] = MainLine("usage", extentions, 0)
    /\ (argNum = 2 /\ ~AnyRecognized /\ mainPc \notin {"main", "list"}) =>
          /\ exit = Exited(-1)
          /\ NoWorkerSpawned
          /\ MainSaid("nofiles")
    /\ (argNum = 2 /\ AnyRecognized) =>
          /\ exit.done => exit = Exited(0) /\ \A w \in Batch : pc[w] = "done"
          /\ mainPc = "exited" => exit = Exited(0)
          /\ ~MainSaid("usage") /\ ~MainSaid("nofiles")

C12_Witness ==
    /\ exit = Exited(0)
    /\ \E w, v \in Workers : FailureLine(w) /\ FinishedLine(v)

(***************************************************************************)
(* C14. The pool spawns one worker per file of the batch and no other,     *)
(* each with the path of its own file, and joins them all, a batch of one  *)
(* file included; when a pthread_create fails no further thread is created *)
(* and the process does not exit with code 0.                              *)
(***************************************************************************)
C14_OneWorkerPerTask ==
    /\ \A w \in Workers :
          Spawned(w) => w \in Batch /\ arg[w] = filtered[w].name
    /\ \A w, v \in Workers :
          (Spawned(w) /\ Spawned(v) /\ w # v) => arg[w] # arg[v]
    /\ mainPc \in {"join", "returned"} => \A w \in Batch : Spawned(w)
    /\ exit = Exited(0) => \A w \in Batch : pc[w] = "done"
    /\ mainPc = "threw" =>
          /\ aborted = "terminate"
          /\ ~exit.done
          /\ \A w \in Workers : Spawned(w) <=> w <= idx
    /\ aborted = "terminate" => mainPc = "threw"

C14_Witness ==
    /\ exit = Exited(0)
    /\ Len(filtered) = 1
    /\ pc[1] = "done"
    /\ arg[1] = InName(1)

(***************************************************************************)
(* C13. For every path with a '.', changeExtention returns the path up to  *)
(* and including its last '.' followed by "mp3" ("track.07.WAV" gives      *)
(* "track.07.mp3"), and changeExtention of that result is the result.      *)
(***************************************************************************)
LastDot(p) ==
    CHOOSE i \in DOMAIN p : p[i] = "." /\ \A j \in DOMAIN p : j > i => p[j] # "."

C13_ReplacesLastExtention ==
    /\ ppc \in {"named", "renamed"} =>
          pout = SubSeq(pin, 1, LastDot(pin)) \o <<"m", "p", "3">>
    /\ ppc = "renamed" => pout = pin
    /\ (ppc = "named" /\ pin = <<"t", "r", "a", "c", "k", ".", "0", "7", ".", "W", "A", "V">>)
          => pout = <<"t", "r", "a", "c", "k", ".", "0", "7", ".", "m", "p", "3">>

C13_Witness ==
    /\ ppc = "renamed"
    /\ pout = <<"t", "r", "a", "c", "k", ".", "0", "7", ".", "m", "p", "3">>

(***************************************************************************)
(* C18. For every header that isValid accepts the divisors bitsPerSample/8 *)
(* and numChannels are at least 1, the sample frames of a chunk are the    *)
(* whole frames in the bytes read, a full chunk of a mono source has as    *)
(* many frames as a full chunk of a stereo source of the same depth (8192  *)
(* at 16 bits), and a shorter chunk has at most, and with one frame less   *)
(* of bytes fewer than, that many frames.                                  *)
(***************************************************************************)
BytesPerFrame(h) == (h.bitsPerSample \div 8) * h.numChannels

C18_FramesPerChunk ==
    (ppc = "counted" /\ pout.accepted) =>
        LET h == pin.hdr
        IN  /\ h.bitsPerSample \div 8 >= 1
            /\ h.numChannels >= 1
            /\ pout.samples * BytesPerFrame(h) <= pout.bytesRead
            /\ pout.bytesRead < (pout.samples + 1) * BytesPerFrame(h)
            /\ pout.samples <= pout.full
            /\ pout.full <= 2 * PCM_NUM_ELEMS
            /\ h.numChannels \in {1, 2} =>
                  pout.full = SizeofPcmBuffer \div (2 * (h.bitsPerSample \div 8))
            /\ (h.numChannels \in {1, 2} /\ h.bitsPerSample = 16) =>
                  pout.full = PCM_NUM_ELEMS
            /\ pout.bytesRead + BytesPerFrame(h) <= pin.left
                  => pout.samples = pout.full
            /\ (pin.left + BytesPerFrame(h) <= pout.full * BytesPerFrame(h))
                  => pout.samples < pout.full

C18_Witness ==
    /\ ppc = "counted" /\ pout.accepted
    /\ pin.hdr.numChannels = 1 /\ pin.hdr.bitsPerSample = 16
    /\ pout.bytesRead = 16384
    /\ pout.samples = 8192

(***************************************************************************)
(* C19. For every header that isValid accepts and every chunk the accesses *)
(* stay inside pcmBuffer, an array of 2 * PCM_NUM_ELEMS 16 bit elements:   *)
(* the widening of 8 bit samples touches only indices below that, and the  *)
(* encode call reads no more elements than that.                           *)
(***************************************************************************)
C19_AccessesInsideBuffer ==
    (ppc = "counted" /\ pout.accepted) =>
        /\ ~pout.widenOob
        /\ pout.consumed <= 2 * PCM_NUM_ELEMS

(***************************************************************************)
(* C15. A worker whose input ended before the declared number of sample    *)
(* frames had been encoded has written a diagnostic line about the         *)
(* mismatch by the time it writes its "Finished" line.                     *)
(***************************************************************************)
C15_MismatchSurfaced ==
    \A w \in Workers :
        (/\ files[w].open
         /\ FinishedLine(w)
         /\ inPcm[w].eof
         /\ fed[w] < declaredSampleCount(pcmHeader[w]))
            => HasLine(w, {"mismatch"})

(***************************************************************************)
(* C16. A worker whose input could not be opened stops its task: it opens  *)
(* no encoder session and no output, writes no "Finished" line, and has    *)
(* written a failure diagnostic when it returns.                           *)
(***************************************************************************)
C16_StreamFailureStopsTask ==
    \A w \in Workers :
        (Spawned(w) /\ ~files[w].open /\ pc[w] # "open") =>
            /\ lame[SessionOf(w)].st = "none"
            /\ outMp3[w].st = "none"
            /\ ~FinishedLine(w)
            /\ pc[w] = "done" => FailureLine(w)

(***************************************************************************)
(* C17. A worker on a file whose header declares an empty data chunk, or   *)
(* whose stream holds no byte after the header, reads no PCM data and      *)
(* makes no encode call.                                                   *)
(***************************************************************************)
C17_EmptyDataSkipsLoop ==
    \A w \in Workers :
        (/\ files[w].open
         /\ AcceptedHeader(w)
         /\ pcmHeader[w].subchunk2Size = 0 \/ files[w].data = 0)
            => /\ ~inPcm[w].eof
               /\ ~lame[SessionOf(w)].encoded

(***************************************************************************)
(* C20. Every byte count a worker passes to outMp3.write is in             *)
(* 0..MP3_BUF_SIZE: a negative code returned by an encode call is not used *)
(* as a write length, and the output stream is never put in error by one.  *)
(***************************************************************************)
C20_WriteLengthInRange ==
    \A w \in Workers :
        /\ pc[w] = "write" => toWrite[w] \in 0..MP3_BUF_SIZE
        /\ ~outMp3[w].bad

(***************************************************************************)
(* C21. Every worker unlocks consoleMtx once for each time it locked it    *)
(* and only while it holds it; it holds it neither when it has returned    *)
(* nor in the encode loop (read, encode, write, flush) nor in the catch    *)
(* block; and, every thread being scheduled fairly, a worker that is about *)
(* to lock the mutex comes to hold it, unless the process is killed.       *)
(***************************************************************************)
HoldsMutex(w) == consoleMtx = w
AboutToLock(w) == pc[w] \in {"open", "lock2"}

C21_Balanced ==
    \A w \in Workers :
        LET c == mtxCalls[w]
        IN  /\ c.stray = 0
            /\ c.unlocks <= c.locks /\ c.locks <= c.unlocks + 1
            /\ HoldsMutex(w) <=> c.locks = c.unlocks + 1
            /\ HoldsMutex(w) =>
                  /\ pc[w] \in {"writing", "unlock_bad", "warn8", "unlock1", "unlock2"}
                  /\ pc[w] = "writing" => cur[w].kind \notin {"zero", "lamefail"}
            /\ pc[w] \in {"read", "write", "flush", "catch", "initfail", "done"}
                  => ~HoldsMutex(w)
            /\ pc[w] = "done" => c.locks = c.unlocks /\ c.locks \in {1, 2}

C21_MutexDiscipline ==
    /\ []C21_Balanced
    /\ \A w \in Workers :
          (AboutToLock(w) /\ Running) ~> (HoldsMutex(w) \/ ~Running)

C21_Witness ==
    \E w, v \in Workers :
        /\ w # v
        /\ pc[w] = "lock2" /\ mtxCalls[w] = [locks |-> 1, unlocks |-> 1, stray |-> 0]
        /\ HoldsMutex(v) /\ mtxCalls[v].locks = 2

=============================================================================
